---- MODULE Spec2Model ----
(***************************************************************************)
(* GeoRAG: a retrieval-augmented generation pipeline.                      *)
(*                                                                         *)
(* A text is a sequence of one-character strings.  The module has two      *)
(* specifications over one set of variables:                               *)
(*   SpecSeg  the segmenters (word window, character window) run on every  *)
(*            small text and policy;                                       *)
(*   Spec     the request chain of src/index.js (runRagPipeline,           *)
(*            searchAndAnswer) against the vector store, broken at its     *)
(*            awaits.                                                      *)
(***************************************************************************)
EXTENDS Integers, Sequences, FiniteSets, TLC

VARIABLES
    seg,          \* the segmenter run: inputs, loop position, emitted chunks
    store,        \* the vector store: record id -> record
    indexExists,  \* whether PINECONE_INDEX_NAME is listed by the store
    rq,           \* the request in progress: position, inputs, locals, result
    hist          \* history of the request, kept for the properties only

vars == <<seg, store, indexExists, rq, hist>>

(***************************************************************************)
(* Bounds of the model                                                     *)
(***************************************************************************)
MaxLen == 4        \* longest text given to the segmenters in SpecSeg
MaxW == 3          \* largest window (and overlap) in SpecSeg
MaxChunks == 6     \* cap on the chunks a non-advancing word loop may emit

Alphabet == {"a", "b", " "}

Texts == UNION {[1..n -> Alphabet] : n \in 0..MaxLen}

Min(a, b) == IF a < b THEN a ELSE b
Max(a, b) == IF a > b THEN a ELSE b
Range(s) == {s[i] : i \in 1..Len(s)}

(***************************************************************************)
(* JavaScript built-ins used by the segmenters                             *)
(***************************************************************************)
\* Array.prototype.slice / String.prototype.slice(start, end): negative
\* indices count from the end, both are clamped to [0, length].
Slice(arr, start, end) ==
    LET len == Len(arr)
        s == IF start < 0 THEN Max(len + start, 0) ELSE Min(start, len)
        e == IF end < 0 THEN Max(len + end, 0) ELSE Min(end, len)
    IN  IF s >= e THEN <<>> ELSE SubSeq(arr, s + 1, e)

\* text.split(" "): the pieces between single spaces; "" gives [""].
\* The pieces of text[lo..hi], computed by halves to keep the recursion
\* shallow: the last piece of the left half continues in the first of the right.
RECURSIVE SplitRange(_, _, _)
SplitRange(text, lo, hi) ==
    IF lo > hi THEN <<<<>>>>
    ELSE IF lo = hi THEN (IF text[lo] = " " THEN <<<<>>, <<>>>> ELSE <<<<text[lo]>>>>)
    ELSE LET mid == (lo + hi) \div 2
             left == SplitRange(text, lo, mid)
             right == SplitRange(text, mid + 1, hi)
         IN  SubSeq(left, 1, Len(left) - 1)
             \o <<left[Len(left)] \o right[1]>>
             \o Tail(right)

Split(text) == SplitRange(text, 1, Len(text))

\* words.join(" ")
RECURSIVE Join(_)
Join(words) ==
    IF Len(words) = 0 THEN <<>>
    ELSE IF Len(words) = 1 THEN words[1]
    ELSE words[1] \o <<" ">> \o Join(Tail(words))

\* ChunkId with the number of the run mixed into the id
ChunkId_PerRun(n) == <<"chunk_", n + 1000 * hist.n>>

\* `chunk_${n}`
ChunkId(n) == <<"chunk_", n>>

(***************************************************************************)
(* Character-window segmenter: createTextChunks(textContent, chunkSize)    *)
(***************************************************************************)
\* CharChunk with the id taken from the position instead of the chunk count
CharChunk_IdFromPosition(textContent, chunkSize, position, n) ==
    LET chunkText == Slice(textContent, position, position + chunkSize)
    IN  [id |-> ChunkId(position),
         text |-> chunkText,
         wordCount |-> Len(Split(chunkText)),
         startPosition |-> position,
         charCount |-> Len(chunkText)]

\* The chunk pushed by one pass of the while loop.
CharChunk(textContent, chunkSize, position, n) ==
    LET chunkText == Slice(textContent, position, position + chunkSize)
    IN  [id |-> ChunkId(n),
         text |-> chunkText,
         wordCount |-> Len(Split(chunkText)),
         startPosition |-> position,
         charCount |-> Len(chunkText)]

\* What the while loop returns for chunkSize >= 1: its n-th pass (n = 0, 1, ...)
\* runs at position n * chunkSize, as long as that is below the text's length.
\* (SpecSeg runs the loop pass by pass; LoopAgreesWithCreateTextChunks ties
\* the two together.)
createTextChunks(textContent, chunkSize) ==
    LET passes == (Len(textContent) + chunkSize - 1) \div chunkSize
    IN  [n \in 1..passes |->
            CharChunk(textContent, chunkSize, (n - 1) * chunkSize, n - 1)]

(***************************************************************************)
(* Configuration constants of src/index.js                                 *)
(***************************************************************************)
BATCH_SIZE == 100
SOURCE_TEXT_FILE_PATH == "./Dummy Text Files/corpora.txt"
SearchChunkSize == 500      \* createTextChunks(cleanedTextContent, 500)
DefaultChunkSize == 512     \* runRagPipeline: chunkSize = 512
HttpMaxResults == 3         \* searchAndAnswer(prompt, 3), searchAndAnswer(testQuery, 3)

(***************************************************************************)
(* The file system the requests read                                       *)
(***************************************************************************)
CorpusLen == 201   \* characters of the default corpus, once cleaned
MaxRequests == 2   \* requests served in one behaviour

\* textFilePath = null
Null == "<null>"

CorpusBody ==
    [i \in 1..CorpusLen |->
        IF i % 5 = 0 /\ i < CorpusLen THEN " " ELSE IF i % 2 = 0 THEN "a" ELSE "b"]

FileA == "uploads/1-a.txt"
FileEmpty == "uploads/2-empty.txt"
FileB == "uploads/3-b.txt"

Files ==
    (SOURCE_TEXT_FILE_PATH :> (<<"\n">> \o CorpusBody \o <<" ", "\n">>))
    @@ (FileA :> <<"a", " ", "\n", "b">>)
    @@ (FileEmpty :> <<"\n">>)
    @@ (FileB :> <<"b", "\n">>)

IsSpace(c) == c \in {" ", "\n"}

\* rawTextContent.replace(/\s+/g, " ") on raw[lo..hi]: a whitespace character
\* that starts a run becomes one space, the rest of the run goes.  Computed
\* by halves to keep the recursion shallow.
RECURSIVE CollapseRange(_, _, _)
CollapseRange(raw, lo, hi) ==
    IF lo > hi THEN <<>>
    ELSE IF lo = hi
         THEN (IF ~IsSpace(raw[lo]) THEN <<raw[lo]>>
               ELSE IF lo > 1 /\ IsSpace(raw[lo - 1]) THEN <<>> ELSE <<" ">>)
    ELSE LET mid == (lo + hi) \div 2
         IN  CollapseRange(raw, lo, mid) \o CollapseRange(raw, mid + 1, hi)

\* .trim()
Trim(text) ==
    LET solid == {i \in 1..Len(text) : ~IsSpace(text[i])}
    IN  IF solid = {} THEN <<>>
        ELSE SubSeq(text, CHOOSE i \in solid : \A j \in solid : i <= j,
                          CHOOSE i \in solid : \A j \in solid : i >= j)

\* fs.readFileSync(filePath, "utf-8") throws for null and for a missing file
ReadError(filePath) ==
    IF filePath = Null
    THEN "The \"path\" argument must be of type string or an instance of Buffer or URL. Received null"
    ELSE "ENOENT: no such file or directory"

loadAndCleanTextFile(filePath) ==
    IF filePath \in DOMAIN Files
    THEN [ok |-> TRUE, text |-> Trim(CollapseRange(Files[filePath], 1, Len(Files[filePath]))), error |-> <<>>]
    ELSE [ok |-> FALSE, text |-> <<>>,
          error |-> <<"Failed to load text file: ", ReadError(filePath)>>]

(***************************************************************************)
(* External capabilities: embedding model, vector store, generation        *)
(***************************************************************************)
Abs(x) == IF x < 0 THEN -x ELSE x

\* embeddingPipeline(text, {pooling: "cls", normalize: true}).data: the same
\* text always gets the same vector; a vector is modelled by a small number.
Embed(text) == (Len(text) + Cardinality({i \in 1..Len(text) : text[i] = "a"})) % 3

\* the store's similarity metric
Score(queryVector, values) == 2 - Abs(queryVector - values)

EmptyStore == [id \in {} |-> 0]

\* Upsert where the batch replaces the content of the index
Upsert_ReplaceAll(s, batch) ==
    LET ids == {batch[i].id : i \in 1..Len(batch)}
    IN  [id \in ids |->
            batch[CHOOSE i \in 1..Len(batch) :
                     /\ batch[i].id = id
                     /\ \A j \in (i + 1)..Len(batch) : batch[j].id # id]]

\* pineconeIndex.upsert(batch): insert or overwrite by id
Upsert(s, batch) ==
    LET ids == {batch[i].id : i \in 1..Len(batch)}
    IN  [id \in DOMAIN s \cup ids |->
            IF id \in ids
            THEN batch[CHOOSE i \in 1..Len(batch) :
                          /\ batch[i].id = id
                          /\ \A j \in (i + 1)..Len(batch) : batch[j].id # id]
            ELSE s[id]]

\* the best remaining record: highest score, then lowest id (store order)
BestId(s, ids, queryVector) ==
    LET scores == {Score(queryVector, s[id].values) : id \in ids}
        top == CHOOSE m \in scores : \A x \in scores : m >= x
        tied == {c \in ids : Score(queryVector, s[c].values) = top}
    IN  CHOOSE c \in tied : \A x \in tied : c[2] <= x[2]

RECURSIVE Rank(_, _, _, _)
Rank(s, ids, queryVector, k) ==
    IF k <= 0 \/ ids = {} THEN <<>>
    ELSE LET best == BestId(s, ids, queryVector)
         IN  <<[id |-> best,
                score |-> Score(queryVector, s[best].values),
                metadata |-> s[best].metadata]>>
             \o Rank(s, ids \ {best}, queryVector, k - 1)

\* pineconeIndex.query({vector, topK, includeMetadata: true}).matches
Query(s, queryVector, topK) == Rank(s, DOMAIN s, queryVector, topK)

StoreErrors == {"Request timed out"}
IndexMissingError == "Index not found"
EmbedError == "Failed to load the embedding model"
NotIterableError == "undefined is not iterable"
GenerationError == "Completion request failed"
Completions == {"generated answer"}
NoTextAvailable == <<"No text available">>
PreviewLength == 300        \* match.metadata?.text?.slice(0, 300)
NoInfoAnswer == "I couldn't find any relevant information to answer your question."

Questions == {<<"a">>, <<"b", "b">>}

(***************************************************************************)
(* The request in progress and its history                                 *)
(***************************************************************************)
NoResult == [status |-> -1, body |-> [success |-> FALSE]]

RqIdle ==
    [pc |-> "idle", entry |-> "none", stage |-> "none",
     searchQuery |-> <<>>, maxResults |-> 0, files |-> <<>>,
     textFilePath |-> Null, chunkSize |-> 0,
     textChunks |-> <<>>, embeddingVectors |-> <<>>, vectorsToUpload |-> <<>>,
     batchIndex |-> 0, queryEmbedding |-> 0,
     matches |-> <<>>, sources |-> <<>>, topChunks |-> <<>>, context |-> <<>>,
     result |-> NoResult]

NoRun == [text |-> <<>>, chunkSize |-> 0, status |-> "none"]

NoPrev ==
    [text |-> <<>>, chunkSize |-> 0, status |-> "none", failedBatch |-> 0,
     storeBefore |-> EmptyStore, textChunks |-> <<>>]

HistIdle ==
    [n |-> 0, storeBefore |-> EmptyStore,
     attempted |-> <<>>, acked |-> {}, failedBatch |-> 0,
     genCalls |-> 0, queried |-> FALSE, extFailed |-> FALSE,
     saCalled |-> FALSE, saNoFile |-> FALSE, saPath |-> Null,
     ingest |-> NoRun, prev |-> NoPrev,
     modelLoaded |-> FALSE, modelReloaded |-> FALSE, ensured |-> FALSE,
     overlapped |-> FALSE, written |-> {}, sent |-> <<>>]

(***************************************************************************)
(* Segmenter run (SpecSeg)                                                 *)
(***************************************************************************)
SegIdle ==
    [pc |-> "idle", policy |-> "none", textContent |-> <<>>, wordsPerChunk |-> 0,
     overlapWords |-> 0, wordsArray |-> <<>>, startIndex |-> 0, position |-> 0,
     textChunks |-> <<>>]

SegInputs ==
    {[SegIdle EXCEPT !.pc = "start", !.policy = "word", !.textContent = t,
                     !.wordsPerChunk = w, !.overlapWords = o]
        : t \in Texts, w \in 1..MaxW, o \in 0..MaxW}
    \cup
    {[SegIdle EXCEPT !.pc = "start", !.policy = "char", !.textContent = t,
                     !.wordsPerChunk = w]
        : t \in Texts, w \in 1..MaxW}

\* The two-sentence text "Cats are mammals. Dogs are mammals too."
ExampleText ==
    <<"C", "a", "t", "s", " ", "a", "r", "e", " ", "m", "a", "m", "m",
    "a", "l", "s", ".", " ", "D", "o", "g", "s", " ", "a", "r", "e",
    " ", "m", "a", "m", "m", "a", "l", "s", " ", "t", "o", "o", ".">>

\* createTextChunks(ExampleText, 5, 0), word window
ExampleInput ==
    [SegIdle EXCEPT !.pc = "start", !.policy = "word", !.textContent = ExampleText,
                    !.wordsPerChunk = 5, !.overlapWords = 0]

\* createTextChunks(textContent, wordsPerChunk, overlapWords), word window:
\* const wordsArray = textContent.split(" "); startIndex = 0
WordSplit ==
    /\ seg.pc = "start"
    /\ seg.policy = "word"
    /\ seg' = [seg EXCEPT !.pc = "loop", !.wordsArray = Split(seg.textContent),
                          !.startIndex = 0]
    /\ UNCHANGED <<store, indexExists, rq, hist>>

\* WordLoop with the window advanced by wordsPerChunk, the overlap forgotten
WordLoop_StepIgnoresOverlap ==
    /\ seg.pc = "loop"
    /\ seg.startIndex < Len(seg.wordsArray)
    /\ seg.overlapWords < seg.wordsPerChunk \/ Len(seg.textChunks) < MaxChunks
    /\ LET chunkWords == Slice(seg.wordsArray, seg.startIndex,
                               seg.startIndex + seg.wordsPerChunk)
       IN  seg' = [seg EXCEPT
                !.textChunks = Append(@, [id |-> ChunkId(Len(seg.textChunks)),
                                          text |-> Join(chunkWords),
                                          wordCount |-> Len(chunkWords),
                                          startPosition |-> seg.startIndex]),
                !.startIndex = @ + seg.wordsPerChunk]
    /\ UNCHANGED <<store, indexExists, rq, hist>>

\* WordLoop with the window one word short
WordLoop_WindowOneShort ==
    /\ seg.pc = "loop"
    /\ seg.startIndex < Len(seg.wordsArray)
    /\ seg.overlapWords < seg.wordsPerChunk \/ Len(seg.textChunks) < MaxChunks
    /\ LET chunkWords == Slice(seg.wordsArray, seg.startIndex,
                               seg.startIndex + seg.wordsPerChunk - 1)
       IN  seg' = [seg EXCEPT
                !.textChunks = Append(@, [id |-> ChunkId(Len(seg.textChunks)),
                                          text |-> Join(chunkWords),
                                          wordCount |-> Len(chunkWords),
                                          startPosition |-> seg.startIndex]),
                !.startIndex = @ + seg.wordsPerChunk - seg.overlapWords]
    /\ UNCHANGED <<store, indexExists, rq, hist>>

\* one pass of the for loop (a loop that does not advance is cut at MaxChunks)
WordLoop ==
    /\ seg.pc = "loop"
    /\ seg.startIndex < Len(seg.wordsArray)
    /\ seg.overlapWords < seg.wordsPerChunk \/ Len(seg.textChunks) < MaxChunks
    /\ LET chunkWords == Slice(seg.wordsArray, seg.startIndex,
                               seg.startIndex + seg.wordsPerChunk)
       IN  seg' = [seg EXCEPT
                !.textChunks = Append(@, [id |-> ChunkId(Len(seg.textChunks)),
                                          text |-> Join(chunkWords),
                                          wordCount |-> Len(chunkWords),
                                          startPosition |-> seg.startIndex]),
                !.startIndex = @ + (seg.wordsPerChunk - seg.overlapWords)]
    /\ UNCHANGED <<store, indexExists, rq, hist>>

\* the loop condition fails: return textChunks
WordReturn ==
    /\ seg.pc = "loop"
    /\ ~(seg.startIndex < Len(seg.wordsArray))
    /\ seg' = [seg EXCEPT !.pc = "done"]
    /\ UNCHANGED <<store, indexExists, rq, hist>>

\* createTextChunks(textContent, chunkSize), character window:
\* one pass of the while loop (chunkSize is held in wordsPerChunk)
CharLoop ==
    /\ seg.pc = "start"
    /\ seg.policy = "char"
    /\ seg.position < Len(seg.textContent)
    /\ seg' = [seg EXCEPT
            !.textChunks = Append(@, CharChunk(seg.textContent, seg.wordsPerChunk,
                                               seg.position, Len(seg.textChunks))),
            !.position = @ + seg.wordsPerChunk]
    /\ UNCHANGED <<store, indexExists, rq, hist>>

\* the loop condition fails: return textChunks
CharReturn ==
    /\ seg.pc = "start"
    /\ seg.policy = "char"
    /\ ~(seg.position < Len(seg.textContent))
    /\ seg' = [seg EXCEPT !.pc = "done"]
    /\ UNCHANGED <<store, indexExists, rq, hist>>

InitSeg ==
    /\ seg \in SegInputs \cup {ExampleInput}
    /\ store = EmptyStore
    /\ indexExists = FALSE
    /\ rq = RqIdle
    /\ hist = HistIdle

NextSeg ==
    \/ WordSplit
    \/ WordLoop
    \/ WordReturn
    \/ CharLoop
    \/ CharReturn

SpecSeg == InitSeg /\ [][NextSeg]_vars

(***************************************************************************)
(* The request chain (Spec)                                                *)
(***************************************************************************)
St(r, h) == [rq |-> r, hist |-> h]

\* The catch block of the entry point: getFile.js 64-71, server.js 38-41,
\* runRagPipeline 342-350.
Catch(st, message) ==
    LET r == st.rq
        res == CASE r.entry = "getFile" ->
                      [status |-> 500,
                       body |-> [success |-> FALSE,
                                 message |-> "Failed to process your query",
                                 error |-> message]]
                 [] r.entry = "server" ->
                      [status |-> 500, body |-> [error |-> <<"Internal Server Error">>]]
                 [] OTHER ->
                      [status |-> 0, body |-> [success |-> FALSE, error |-> message]]
    IN  St([r EXCEPT !.pc = "done", !.result = res], st.hist)

\* searchAndAnswer has returned ret to the entry point.
Return(st, ret) ==
    LET r == st.rq
        res == CASE r.entry = "getFile" ->
                      [status |-> 200,
                       body |-> [success |-> TRUE, answer |-> ret.answer,
                                 sources |-> ret.sources,
                                 message |-> "Query processed successfully"]]
                 [] r.entry = "server" ->
                      [status |-> 200, body |-> [answer |-> ret]]
                 [] OTHER ->
                      [status |-> 0,
                       body |-> [success |-> TRUE, chunkCount |-> Len(r.textChunks),
                                 testQuery |-> r.searchQuery, testResult |-> ret]]
    IN  St([r EXCEPT !.pc = "done", !.result = res], st.hist)

\* searchAndAnswer(searchQuery, maxResults, options) up to its first await:
\* pick the file, load and clean it, cut it into chunks.
searchAndAnswer(st) ==
    LET r == st.rq
        textFilePath == IF Len(r.files) > 0 THEN r.files[1] ELSE Null
        loaded == loadAndCleanTextFile(textFilePath)
        r1 == [r EXCEPT !.stage = "sa", !.textFilePath = textFilePath]
        h1 == [st.hist EXCEPT !.saCalled = TRUE, !.saNoFile = (Len(r.files) = 0),
                              !.saPath = textFilePath]
    IN  IF ~loaded.ok
        THEN Catch(St(r1, h1), loaded.error)
        ELSE St([r1 EXCEPT !.pc = "embed", !.chunkSize = SearchChunkSize,
                           !.textChunks = createTextChunks(loaded.text, SearchChunkSize)],
                [h1 EXCEPT !.ingest = [text |-> loaded.text,
                                       chunkSize |-> SearchChunkSize,
                                       status |-> "started"]])

\* runRagPipeline, step 2: load the text and cut it into chunks.
RagLoad(st) ==
    LET r == st.rq
        loaded == loadAndCleanTextFile(r.textFilePath)
    IN  IF ~loaded.ok
        THEN Catch(st, loaded.error)
        ELSE St([r EXCEPT !.pc = "embed",
                          !.textChunks = createTextChunks(loaded.text, r.chunkSize)],
                [st.hist EXCEPT !.ingest = [text |-> loaded.text,
                                            chunkSize |-> r.chunkSize,
                                            status |-> "started"]])

\* uploadChunksToPinecone has returned: the caller goes on.
AfterUpload(st) ==
    LET h == [st.hist EXCEPT !.ingest.status = "ok"]
    IN  CASE st.rq.stage = "rag" ->
                searchAndAnswer(St([st.rq EXCEPT !.maxResults = HttpMaxResults,
                                                 !.files = <<>>], h))
          [] st.rq.stage = "upload" ->
                St([st.rq EXCEPT !.pc = "done",
                                 !.result = [status |-> 0,
                                             body |-> [success |-> TRUE]]], h)
          [] OTHER -> St([st.rq EXCEPT !.pc = "sa_qembed"], h)

\* uploadChunksToPinecone(textChunks, embeddingVectors) up to its first await:
\* the records are built, the batch loop is entered.
BuildRecords(textChunks, embeddingVectors) ==
    [chunkIndex \in 1..Len(textChunks) |->
        [id |-> textChunks[chunkIndex].id,
         values |-> embeddingVectors[chunkIndex],
         metadata |-> [text |-> textChunks[chunkIndex].text,
                       wordCount |-> textChunks[chunkIndex].wordCount,
                       startPosition |-> textChunks[chunkIndex].startPosition,
                       chunkId |-> textChunks[chunkIndex].id]]]

\* Array.from(embeddingVectors[chunkIndex]) throws on the first chunk that
\* has no vector; vectors beyond the last chunk are never read.
uploadChunksToPinecone(st) ==
    IF Len(st.rq.embeddingVectors) < Len(st.rq.textChunks)
    THEN Catch(st, <<NotIterableError>>)
    ELSE LET vectorsToUpload == BuildRecords(st.rq.textChunks,
                                             st.rq.embeddingVectors)
             r == [st.rq EXCEPT !.vectorsToUpload = vectorsToUpload,
                                !.batchIndex = 0]
         IN  IF 0 < Len(vectorsToUpload)
             THEN St([r EXCEPT !.pc = "upload"], st.hist)
             ELSE AfterUpload(St(r, st.hist))

StartHist ==
    [HistIdle EXCEPT
        !.n = hist.n + 1,
        !.storeBefore = store,
        !.modelLoaded = hist.modelLoaded,
        !.modelReloaded = hist.modelReloaded,
        !.ensured = hist.ensured,
        !.prev = [text |-> hist.ingest.text,
                  chunkSize |-> hist.ingest.chunkSize,
                  status |-> hist.ingest.status,
                  failedBatch |-> hist.failedBatch,
                  storeBefore |-> IF hist.failedBatch > 0 THEN hist.storeBefore
                                  ELSE EmptyStore,
                  textChunks |-> IF hist.ingest.status = "ok" THEN rq.textChunks
                                 ELSE <<>>]]

CanStart == rq.pc \in {"idle", "done"} /\ hist.n < MaxRequests

Set(st) == rq' = st.rq /\ hist' = st.hist

\* getFile.js POST /api/ask: searchAndAnswer(req.body.prompt, 3, {requestInfo})
GetFileAsk ==
    /\ CanStart
    /\ \E prompt \in Questions, files \in {<<>>, <<FileA>>, <<FileEmpty>>} :
          Set(searchAndAnswer(St([RqIdle EXCEPT !.entry = "getFile",
                                                !.searchQuery = prompt,
                                                !.maxResults = HttpMaxResults,
                                                !.files = files],
                                 StartHist)))
    /\ UNCHANGED <<seg, store, indexExists>>

\* server.js POST /api/ask: searchAndAnswer(prompt, 3)
ServerAsk ==
    /\ CanStart
    /\ \E prompt \in Questions :
          Set(searchAndAnswer(St([RqIdle EXCEPT !.entry = "server",
                                                !.searchQuery = prompt,
                                                !.maxResults = HttpMaxResults],
                                 StartHist)))
    /\ UNCHANGED <<seg, store, indexExists>>

\* runRagPipeline(options) up to the await of listIndexes
RunRagPipeline ==
    /\ CanStart
    /\ \E textFilePath \in {SOURCE_TEXT_FILE_PATH, FileA},
          chunkSize \in {1, 2, DefaultChunkSize},
          testQuery \in Questions :
          Set(St([RqIdle EXCEPT !.pc = "rag_list", !.entry = "rag", !.stage = "rag",
                                !.textFilePath = textFilePath,
                                !.chunkSize = chunkSize,
                                !.searchQuery = testQuery],
                 StartHist))
    /\ UNCHANGED <<seg, store, indexExists>>

Failed(h) == [h EXCEPT !.extFailed = TRUE]

\* the ids of the records handed to one upsert call, in their order
IdsOf(batch) == [i \in 1..Len(batch) |-> batch[i].id]

\* await pipeline("feature-extraction", EMBEDDING_MODEL_NAME) has built a
\* pipeline: the call is made at the top of each embedding function, whether
\* or not an earlier call of the process has built one.
Loaded(h) ==
    [h EXCEPT !.modelLoaded = TRUE,
              !.modelReloaded = (h.modelLoaded \/ h.modelReloaded)]

\* ensurePineconeIndexExists has returned.
Ensured(h) == [h EXCEPT !.ensured = TRUE]

\* ListIndexes where createIndex is called whatever the listing says
ListIndexes_AlwaysCreate ==
    /\ rq.pc = "rag_list"
    /\ \/ Set(St([rq EXCEPT !.pc = "rag_create"], hist))
       \/ \E err \in StoreErrors : Set(Catch(St(rq, Failed(hist)), <<err>>))
    /\ UNCHANGED <<seg, store, indexExists>>

\* ensurePineconeIndexExists: listIndexes answers
ListIndexes ==
    /\ rq.pc = "rag_list"
    /\ \/ Set(IF indexExists THEN RagLoad(St(rq, Ensured(hist)))
              ELSE St([rq EXCEPT !.pc = "rag_create"], hist))
       \/ \E err \in StoreErrors : Set(Catch(St(rq, Failed(hist)), <<err>>))
    /\ UNCHANGED <<seg, store, indexExists>>

\* ensurePineconeIndexExists: createIndex answers
CreateIndex ==
    /\ rq.pc = "rag_create"
    /\ \/ /\ indexExists' = TRUE
          /\ Set(RagLoad(St(rq, Ensured(hist))))
       \/ /\ UNCHANGED indexExists
          /\ \E err \in StoreErrors : Set(Catch(St(rq, Failed(hist)), <<err>>))
    /\ UNCHANGED <<seg, store>>

\* generateEmbeddingsForChunks answers; on success uploadChunksToPinecone starts
EmbedChunks ==
    /\ rq.pc = "embed"
    /\ \/ Set(uploadChunksToPinecone(
                St([rq EXCEPT !.embeddingVectors =
                        [i \in 1..Len(rq.textChunks) |-> Embed(rq.textChunks[i].text)]],
                   Loaded(hist))))
       \/ Set(Catch(St(rq, Failed(hist)), <<EmbedError>>))
    /\ UNCHANGED <<seg, store, indexExists>>

\* UpsertBatch where a failed batch is logged and the loop goes on
UpsertBatch_SkipFailed ==
    /\ rq.pc = "upload"
    /\ LET currentBatch == Slice(rq.vectorsToUpload, rq.batchIndex,
                                 rq.batchIndex + BATCH_SIZE)
           batchNumber == (rq.batchIndex \div BATCH_SIZE) + 1
           next == [rq EXCEPT !.batchIndex = @ + BATCH_SIZE]
           issued == [hist EXCEPT !.attempted = Append(@, batchNumber),
                                   !.sent = Append(@, IdsOf(currentBatch))]
           goOn(h) == IF next.batchIndex < Len(rq.vectorsToUpload)
                      THEN St(next, h) ELSE AfterUpload(St(next, h))
       IN  \/ /\ indexExists
              /\ store' = Upsert(store, currentBatch)
              /\ Set(goOn([issued EXCEPT !.acked = @ \cup {batchNumber}]))
           \/ /\ UNCHANGED store
              /\ Set(goOn([Failed(issued) EXCEPT !.failedBatch = batchNumber,
                                                 !.ingest.status = "failed"]))
    /\ UNCHANGED <<seg, indexExists>>

\* UpsertBatch where the loop advances by one record less than a batch
UpsertBatch_StepOneShort ==
    /\ rq.pc = "upload"
    /\ LET currentBatch == Slice(rq.vectorsToUpload, rq.batchIndex,
                                 rq.batchIndex + BATCH_SIZE)
           batchNumber == (rq.batchIndex \div BATCH_SIZE) + 1
           next == [rq EXCEPT !.batchIndex = @ + BATCH_SIZE - 1]
           issued == [hist EXCEPT !.attempted = Append(@, batchNumber),
                                  !.sent = Append(@, IdsOf(currentBatch))]
       IN  \/ /\ indexExists
              /\ store' = Upsert(store, currentBatch)
              /\ LET h == [issued EXCEPT !.acked = @ \cup {batchNumber}]
                 IN  Set(IF next.batchIndex < Len(rq.vectorsToUpload)
                         THEN St(next, h)
                         ELSE AfterUpload(St(next, h)))
           \/ \E err \in (IF indexExists THEN StoreErrors ELSE {IndexMissingError}) :
                /\ UNCHANGED store
                /\ Set(Catch(St(rq, [Failed(issued) EXCEPT
                                        !.failedBatch = batchNumber,
                                        !.ingest.status = "failed"]),
                             <<"Batch upload failed: ", err>>))
    /\ UNCHANGED <<seg, indexExists>>

\* uploadChunksToPinecone: the upsert of the current batch answers
UpsertBatch ==
    /\ rq.pc = "upload"
    /\ LET currentBatch == Slice(rq.vectorsToUpload, rq.batchIndex,
                                 rq.batchIndex + BATCH_SIZE)
           batchNumber == (rq.batchIndex \div BATCH_SIZE) + 1
           next == [rq EXCEPT !.batchIndex = @ + BATCH_SIZE]
           issued == [hist EXCEPT !.attempted = Append(@, batchNumber),
                                   !.sent = Append(@, IdsOf(currentBatch))]
       IN  \/ /\ indexExists
              /\ store' = Upsert(store, currentBatch)
              /\ LET h == [issued EXCEPT !.acked = @ \cup {batchNumber}]
                 IN  Set(IF next.batchIndex < Len(rq.vectorsToUpload)
                         THEN St(next, h)
                         ELSE AfterUpload(St(next, h)))
           \/ \E err \in (IF indexExists THEN StoreErrors ELSE {IndexMissingError}),
                 written \in (IF indexExists THEN BOOLEAN ELSE {FALSE}) :
                /\ store' = IF written THEN Upsert(store, currentBatch) ELSE store
                /\ Set(Catch(St(rq, [Failed(issued) EXCEPT
                                        !.failedBatch = batchNumber,
                                        !.written = IF written
                                                    THEN @ \cup {batchNumber}
                                                    ELSE @,
                                        !.ingest.status = "failed"]),
                             <<"Batch upload failed: ", err>>))
    /\ UNCHANGED <<seg, indexExists>>

\* generateQueryEmbedding answers
EmbedQuery ==
    /\ rq.pc = "sa_qembed"
    /\ \/ Set(St([rq EXCEPT !.pc = "sa_query",
                            !.queryEmbedding = Embed(rq.searchQuery)], Loaded(hist)))
       \/ Set(Catch(St(rq, Failed(hist)),
                    <<"Search operation failed: ", EmbedError>>))
    /\ UNCHANGED <<seg, store, indexExists>>

\* answerWithGPT4O: the context of the prompt, one entry per chunk; the
\* entries are joined with a blank line.
Context(topChunks) ==
    [i \in 1..Len(topChunks) |-> <<"Context ", i, ": ", topChunks[i].text>>]

\* Source with the similarity shown as a percentage
Source_Percent(match) ==
    [id |-> match.id,
     similarity |-> match.score * 100,
     preview |-> IF Slice(match.metadata.text, 0, PreviewLength) = <<>>
                 THEN NoTextAvailable
                 ELSE Slice(match.metadata.text, 0, PreviewLength),
     fullText |-> match.metadata.text]

\* What searchAndAnswer shows of one match.
Source(match) ==
    [id |-> match.id,
     similarity |-> match.score,
     preview |-> IF Slice(match.metadata.text, 0, PreviewLength) = <<>>
                 THEN NoTextAvailable
                 ELSE Slice(match.metadata.text, 0, PreviewLength),
     fullText |-> match.metadata.text]

\* QueryStore where the generation call is made whatever the matches are
QueryStore_AlwaysGenerate ==
    /\ rq.pc = "sa_query"
    /\ \/ /\ indexExists
          /\ LET matches == Query(store, rq.queryEmbedding, rq.maxResults)
                 h == [hist EXCEPT !.queried = TRUE]
             IN  Set(St([rq EXCEPT
                            !.pc = "sa_gen",
                            !.matches = matches,
                            !.sources = [i \in 1..Len(matches) |-> Source(matches[i])],
                            !.topChunks = [i \in 1..Len(matches) |->
                                              [text |-> matches[i].metadata.text]],
                            !.context = Context([i \in 1..Len(matches) |->
                                              [text |-> matches[i].metadata.text]])],
                        [h EXCEPT !.genCalls = @ + 1]))
       \/ \E err \in (IF indexExists THEN StoreErrors ELSE {IndexMissingError}) :
             Set(Catch(St(rq, Failed(hist)), <<"Search operation failed: ", err>>))
    /\ UNCHANGED <<seg, store, indexExists>>

\* searchAndAnswer: the store query answers; with matches the generation call
\* is issued, without any the fixed answer is returned
QueryStore ==
    /\ rq.pc = "sa_query"
    /\ \/ /\ indexExists
          /\ LET matches == Query(store, rq.queryEmbedding, rq.maxResults)
                 h == [hist EXCEPT !.queried = TRUE]
             IN  IF Len(matches) > 0
                 THEN Set(St([rq EXCEPT
                                !.pc = "sa_gen",
                                !.matches = matches,
                                !.sources = [i \in 1..Len(matches) |->
                                                Source(matches[i])],
                                !.topChunks = [i \in 1..Len(matches) |->
                                                  [text |-> matches[i].metadata.text]],
                                !.context = Context([i \in 1..Len(matches) |->
                                                  [text |-> matches[i].metadata.text]])],
                             [h EXCEPT !.genCalls = @ + 1]))
                 ELSE Set(Return(St([rq EXCEPT !.matches = matches], h),
                                 [success |-> TRUE, query |-> rq.searchQuery,
                                  answer |-> NoInfoAnswer, sources |-> <<>>]))
       \/ \E err \in (IF indexExists THEN StoreErrors ELSE {IndexMissingError}) :
             Set(Catch(St(rq, Failed(hist)), <<"Search operation failed: ", err>>))
    /\ UNCHANGED <<seg, store, indexExists>>

\* answerWithGPT4O: the completion answers
Generate ==
    /\ rq.pc = "sa_gen"
    /\ \/ \E completion \in Completions :
             Set(Return(St(rq, hist),
                        [success |-> TRUE, query |-> rq.searchQuery,
                         answer |-> completion, sources |-> rq.sources]))
       \/ Set(Catch(St(rq, Failed(hist)),
                    <<"Search operation failed: ", GenerationError>>))
    /\ UNCHANGED <<seg, store, indexExists>>

Init ==
    /\ seg = SegIdle
    /\ store = EmptyStore
    /\ indexExists \in BOOLEAN
    /\ rq = RqIdle
    /\ hist = HistIdle

Next ==
    \/ GetFileAsk
    \/ ServerAsk
    \/ RunRagPipeline
    \/ ListIndexes
    \/ CreateIndex
    \/ EmbedChunks
    \/ UpsertBatch
    \/ EmbedQuery
    \/ QueryStore
    \/ Generate

Spec == Init /\ [][Next]_vars

(***************************************************************************)
(* uploadChunksToPinecone called on its own (SpecUpload)                   *)
(***************************************************************************)
\* The calls: chunks of a text, and a vector array of any length up to one
\* more than the longest chunk array.
UploadInputs ==
    {[RqIdle EXCEPT !.pc = "upload_call", !.entry = "upload", !.stage = "upload",
                    !.chunkSize = w,
                    !.textChunks = createTextChunks(t, w),
                    !.embeddingVectors =
                        [i \in 1..m |-> IF i <= Len(createTextChunks(t, w))
                                        THEN Embed(createTextChunks(t, w)[i].text)
                                        ELSE 0]]
        : t \in Texts, w \in 1..MaxW, m \in 0..(MaxLen + 1)}
    \cup
    {[RqIdle EXCEPT !.pc = "upload_call", !.entry = "upload", !.stage = "upload",
                    !.chunkSize = 1,
                    !.textChunks = createTextChunks(t, 1),
                    !.embeddingVectors =
                        [i \in 1..Len(t) |-> Embed(createTextChunks(t, 1)[i].text)]]
        : t \in {Slice(CorpusBody, 0, k * BATCH_SIZE + d)
                    : k \in {1, 2}, d \in {-1, 0, 1}}}

UploadCall ==
    /\ rq.pc = "upload_call"
    /\ Set(uploadChunksToPinecone(St(rq, hist)))
    /\ UNCHANGED <<seg, store, indexExists>>

InitUpload ==
    /\ seg = SegIdle
    /\ store = EmptyStore
    /\ indexExists \in BOOLEAN
    /\ rq \in UploadInputs
    /\ hist = [HistIdle EXCEPT !.n = 1]

NextUpload ==
    \/ UploadCall
    \/ UpsertBatch

SpecUpload == InitUpload /\ [][NextUpload]_vars

(***************************************************************************)
(* Two POST /api/ask requests served at once (SpecConcurrent)              *)
(***************************************************************************)
\* The requests. Each runs searchAndAnswer on its own locals, rq[p]; both
\* use the one index. A step is the code of one request between two awaits.
Requests == {"A", "B"}

InProgress(p) == rq[p].pc \notin {"idle", "done"}

SetOf(p, st) ==
    /\ rq' = [rq EXCEPT ![p] = st.rq]
    /\ hist' = [hist EXCEPT ![p] = st.hist]

\* getFile.js POST /api/ask with an uploaded file, which no other request
\* has uploaded; the requests in progress at that moment overlap with it.
AskOf(p) ==
    /\ rq[p].pc = "idle"
    /\ \E prompt \in Questions, file \in {FileA, FileB, FileEmpty} :
          /\ \A q \in Requests \ {p} : rq[q].files # <<file>>
          /\ LET others == {q \in Requests \ {p} : InProgress(q)}
                 st == searchAndAnswer(
                         St([RqIdle EXCEPT !.entry = "getFile",
                                           !.searchQuery = prompt,
                                           !.maxResults = HttpMaxResults,
                                           !.files = <<file>>],
                            [HistIdle EXCEPT !.n = 1,
                                             !.overlapped = (others # {})]))
             IN  /\ rq' = [rq EXCEPT ![p] = st.rq]
                 /\ hist' = [q \in Requests |->
                                IF q = p THEN st.hist
                                ELSE IF q \in others
                                     THEN [hist[q] EXCEPT !.overlapped = TRUE]
                                     ELSE hist[q]]
    /\ UNCHANGED <<seg, store, indexExists>>

EmbedChunksOf(p) ==
    /\ rq[p].pc = "embed"
    /\ \/ SetOf(p, uploadChunksToPinecone(
                St([rq[p] EXCEPT !.embeddingVectors =
                        [i \in 1..Len(rq[p].textChunks) |->
                            Embed(rq[p].textChunks[i].text)]],
                   Loaded(hist[p]))))
       \/ SetOf(p, Catch(St(rq[p], Failed(hist[p])), <<EmbedError>>))
    /\ UNCHANGED <<seg, store, indexExists>>

UpsertBatchOf(p) ==
    /\ rq[p].pc = "upload"
    /\ LET currentBatch == Slice(rq[p].vectorsToUpload, rq[p].batchIndex,
                                 rq[p].batchIndex + BATCH_SIZE)
           batchNumber == (rq[p].batchIndex \div BATCH_SIZE) + 1
           next == [rq[p] EXCEPT !.batchIndex = @ + BATCH_SIZE]
           issued == [hist[p] EXCEPT !.attempted = Append(@, batchNumber),
                                      !.sent = Append(@, IdsOf(currentBatch))]
       IN  \/ /\ indexExists
              /\ store' = Upsert(store, currentBatch)
              /\ LET h == [issued EXCEPT !.acked = @ \cup {batchNumber}]
                 IN  SetOf(p, IF next.batchIndex < Len(rq[p].vectorsToUpload)
                              THEN St(next, h)
                              ELSE AfterUpload(St(next, h)))
           \/ \E err \in (IF indexExists THEN StoreErrors ELSE {IndexMissingError}),
                 written \in (IF indexExists THEN BOOLEAN ELSE {FALSE}) :
                /\ store' = IF written THEN Upsert(store, currentBatch) ELSE store
                /\ SetOf(p, Catch(St(rq[p], [Failed(issued) EXCEPT
                                                !.failedBatch = batchNumber,
                                                !.ingest.status = "failed"]),
                                  <<"Batch upload failed: ", err>>))
    /\ UNCHANGED <<seg, indexExists>>

EmbedQueryOf(p) ==
    /\ rq[p].pc = "sa_qembed"
    /\ \/ SetOf(p, St([rq[p] EXCEPT !.pc = "sa_query",
                                    !.queryEmbedding = Embed(rq[p].searchQuery)],
                      Loaded(hist[p])))
       \/ SetOf(p, Catch(St(rq[p], Failed(hist[p])),
                         <<"Search operation failed: ", EmbedError>>))
    /\ UNCHANGED <<seg, store, indexExists>>

QueryStoreOf(p) ==
    /\ rq[p].pc = "sa_query"
    /\ \/ /\ indexExists
          /\ LET matches == Query(store, rq[p].queryEmbedding, rq[p].maxResults)
                 h == [hist[p] EXCEPT !.queried = TRUE]
                 topChunks == [i \in 1..Len(matches) |->
                                  [text |-> matches[i].metadata.text]]
             IN  IF Len(matches) > 0
                 THEN SetOf(p, St([rq[p] EXCEPT
                                     !.pc = "sa_gen",
                                     !.matches = matches,
                                     !.sources = [i \in 1..Len(matches) |->
                                                     Source(matches[i])],
                                     !.topChunks = topChunks,
                                     !.context = Context(topChunks)],
                                  [h EXCEPT !.genCalls = @ + 1]))
                 ELSE SetOf(p, Return(St([rq[p] EXCEPT !.matches = matches], h),
                                      [success |-> TRUE,
                                       query |-> rq[p].searchQuery,
                                       answer |-> NoInfoAnswer,
                                       sources |-> <<>>]))
       \/ \E err \in (IF indexExists THEN StoreErrors ELSE {IndexMissingError}) :
             SetOf(p, Catch(St(rq[p], Failed(hist[p])),
                            <<"Search operation failed: ", err>>))
    /\ UNCHANGED <<seg, store, indexExists>>

GenerateOf(p) ==
    /\ rq[p].pc = "sa_gen"
    /\ \/ \E completion \in Completions :
             SetOf(p, Return(St(rq[p], hist[p]),
                             [success |-> TRUE, query |-> rq[p].searchQuery,
                              answer |-> completion, sources |-> rq[p].sources]))
       \/ SetOf(p, Catch(St(rq[p], Failed(hist[p])),
                         <<"Search operation failed: ", GenerationError>>))
    /\ UNCHANGED <<seg, store, indexExists>>

InitConcurrent ==
    /\ seg = SegIdle
    /\ store = EmptyStore
    /\ indexExists \in BOOLEAN
    /\ rq = [p \in Requests |-> RqIdle]
    /\ hist = [p \in Requests |-> HistIdle]

NextConcurrent ==
    \E p \in Requests :
        \/ AskOf(p)
        \/ EmbedChunksOf(p)
        \/ UpsertBatchOf(p)
        \/ EmbedQueryOf(p)
        \/ QueryStoreOf(p)
        \/ GenerateOf(p)

SpecConcurrent == InitConcurrent /\ [][NextConcurrent]_vars
(***************************************************************************)
(* The sources built from a store answer (SpecSources)                     *)
(***************************************************************************)
\* Passage texts around the preview length: a chunk of the 500-character
\* window can be up to 500 characters long.
PassageTexts ==
    {[i \in 1..n |-> c] : n \in 1..(PreviewLength + MaxLen), c \in {"a", "b"}}

\* searchResults.matches.map(...) of searchAndAnswer, on a one-match answer
MapSources ==
    /\ rq.pc = "map_call"
    /\ rq' = [rq EXCEPT !.pc = "mapped",
                        !.sources = [i \in 1..Len(rq.matches) |->
                                        Source(rq.matches[i])]]
    /\ UNCHANGED <<seg, store, indexExists, hist>>

InitSources ==
    /\ seg = SegIdle
    /\ store = EmptyStore
    /\ indexExists = TRUE
    /\ \E t \in PassageTexts :
          rq = [RqIdle EXCEPT !.pc = "map_call", !.entry = "sources",
                              !.matches = <<[id |-> ChunkId(0),
                                             score |-> Score(Embed(t), Embed(t)),
                                             metadata |-> [text |-> t]]>>]
    /\ hist = [HistIdle EXCEPT !.n = 1]

NextSources == MapSources

SpecSources == InitSources /\ [][NextSources]_vars

(***************************************************************************)
(* searchQuery of the stand-alone pipeline, part_000 (SpecSearchQuery)     *)
(***************************************************************************)
DefaultTopK == 5        \* searchQuery(query, topK = 5)

\* chunkText(text, chunkSize, overlap) of part_000, for overlap < chunkSize
chunkText(text, chunkSize, overlap) ==
    LET words == Split(text)
        step == chunkSize - overlap
        passes == (Len(words) + step - 1) \div step
    IN  [n \in 1..passes |->
            [id |-> ChunkId(n - 1),
             text |-> Join(Slice(words, (n - 1) * step,
                                 (n - 1) * step + chunkSize))]]

\* the records saveToPinecone builds from the chunks and their embeddings
vectorsToUpsert(chunks) ==
    [i \in 1..Len(chunks) |->
        [id |-> chunks[i].id,
         values |-> Embed(chunks[i].text),
         metadata |-> [text |-> chunks[i].text,
                       original_chunk_id |-> chunks[i].id]]]

\* main calls searchQuery(query)
SearchQueryCall ==
    /\ rq.pc = "sq_call"
    /\ \E query \in Questions :
          rq' = [rq EXCEPT !.pc = "sq_embed", !.searchQuery = query,
                           !.maxResults = DefaultTopK]
    /\ UNCHANGED <<seg, store, indexExists, hist>>

\* searchQuery: the query embedding answers (outside the try block)
SearchQueryEmbed ==
    /\ rq.pc = "sq_embed"
    /\ \/ Set(St([rq EXCEPT !.pc = "sq_query",
                            !.queryEmbedding = Embed(rq.searchQuery)],
                  Loaded(hist)))
       \/ Set(Catch(St(rq, Failed(hist)), <<EmbedError>>))
    /\ UNCHANGED <<seg, store, indexExists>>

\* searchQuery: index.query answers; the catch block logs the error and the
\* function returns
SearchQueryAnswer ==
    /\ rq.pc = "sq_query"
    /\ LET returned == [status |-> 0, body |-> [success |-> TRUE]]
       IN  \/ Set(St([rq EXCEPT !.pc = "done",
                                !.matches = Query(store, rq.queryEmbedding,
                                                  rq.maxResults),
                                !.result = returned],
                      [hist EXCEPT !.queried = TRUE]))
           \/ \E err \in StoreErrors :
                 Set(St([rq EXCEPT !.pc = "done", !.result = returned],
                        Failed(hist)))
    /\ UNCHANGED <<seg, store, indexExists>>

\* main has ingested a text: the index exists and holds its chunks
InitSearchQuery ==
    /\ seg = SegIdle
    /\ \E t \in Texts, w \in 1..MaxW :
          \E o \in 0..(w - 1) :
             store = Upsert(EmptyStore, vectorsToUpsert(chunkText(t, w, o)))
    /\ indexExists = TRUE
    /\ rq = [RqIdle EXCEPT !.pc = "sq_call", !.entry = "searchQuery"]
    /\ hist = [HistIdle EXCEPT !.n = 1]

NextSearchQuery ==
    \/ SearchQueryCall
    \/ SearchQueryEmbed
    \/ SearchQueryAnswer

SpecSearchQuery == InitSearchQuery /\ [][NextSearchQuery]_vars

(***************************************************************************)
(* Properties of the segmenters (SpecSeg)                                  *)
(***************************************************************************)
\* The character-window loop, run pass by pass, returns what createTextChunks
\* gives in one step.
LoopAgreesWithCreateTextChunks ==
    (seg.pc = "done" /\ seg.policy = "char") =>
        seg.textChunks = createTextChunks(seg.textContent, seg.wordsPerChunk)

\* The policy is one the segmenter contract accepts: 0 <= overlap < W.
ValidPolicy == seg.wordsPerChunk >= 1 /\ seg.overlapWords < seg.wordsPerChunk

\* A chunk's content in the units of the policy: words or characters.
UnitsOf(text) == IF seg.policy = "word" THEN Split(text) ELSE text

\* The units back to a text.
TextOf(units) == IF seg.policy = "word" THEN Join(units) ELSE units

Drop(n, s) == IF n >= Len(s) THEN <<>> ELSE SubSeq(s, n + 1, Len(s))

\* The first chunk's units, then each later chunk's units without the first o.
RECURSIVE NonOverlapping(_, _, _)
NonOverlapping(chunks, i, o) ==
    IF i > Len(chunks) THEN <<>>
    ELSE (IF i = 1 THEN UnitsOf(chunks[i].text) ELSE Drop(o, UnitsOf(chunks[i].text)))
         \o NonOverlapping(chunks, i + 1, o)

\* C6: for every text, window W and overlap 0 <= o < W, under both policies,
\* no returned chunk has more than W units, and the first chunk followed by
\* each later chunk without its first o units gives back exactly the text.
C6_CoverageAndSizeBound ==
    (seg.pc = "done" /\ ValidPolicy) =>
        /\ \A i \in 1..Len(seg.textChunks) :
                Len(UnitsOf(seg.textChunks[i].text)) <= seg.wordsPerChunk
        /\ TextOf(NonOverlapping(seg.textChunks, 1, seg.overlapWords))
                = seg.textContent

\* C6 witness: a word-window run with overlap whose last chunk is shorter
\* than the overlap, after at least three chunks.
C6_Witness ==
    /\ seg.pc = "done"
    /\ seg.policy = "word"
    /\ seg.overlapWords = 2
    /\ seg.wordsPerChunk = 3
    /\ Len(seg.textChunks) >= 3
    /\ seg.textChunks[Len(seg.textChunks)].wordCount < seg.overlapWords

\* C7: the word-window segmenter called with overlap >= W emits no chunk and
\* never returns a chunk list (it ends in a configuration error).
C7_InvalidPolicyRejected ==
    (seg.policy = "word" /\ seg.overlapWords >= seg.wordsPerChunk) =>
        /\ seg.textChunks = <<>>
        /\ seg.pc \in {"start", "loop", "configError"}

\* The number of units of the input text.
InputUnits == Len(UnitsOf(seg.textContent))

\* C8: under every policy, the empty string gives zero chunks, no chunk has
\* an empty text, and a non-empty text shorter than one window gives exactly
\* one chunk, equal to the whole text.
C8_BoundaryCases ==
    (seg.pc = "done" /\ ValidPolicy) =>
        /\ seg.textContent = <<>> => seg.textChunks = <<>>
        /\ \A i \in 1..Len(seg.textChunks) : seg.textChunks[i].text # <<>>
        /\ (seg.textContent # <<>> /\ InputUnits < seg.wordsPerChunk) =>
                /\ Len(seg.textChunks) = 1
                /\ seg.textChunks[1].text = seg.textContent

\* C9: within one segmenter run with a valid policy, the i-th emitted chunk
\* (0-based) has id chunk_i, the ids are pairwise distinct, and each chunk's
\* startPosition is strictly greater than that of the chunk before it.
C9_IdsInEmissionOrder ==
    ValidPolicy =>
        \A i \in 1..Len(seg.textChunks) :
            /\ seg.textChunks[i].id = ChunkId(i - 1)
            /\ \A j \in 1..Len(seg.textChunks) :
                    i # j => seg.textChunks[i].id # seg.textChunks[j].id
            /\ i > 1 => seg.textChunks[i].startPosition
                            > seg.textChunks[i - 1].startPosition

\* C9 witness: a finished character-window run of windows wider than one
\* character that emitted two chunks or more.
C9_Witness ==
    /\ seg.pc = "done"
    /\ seg.policy = "char"
    /\ seg.wordsPerChunk >= 2
    /\ Len(seg.textChunks) >= 2

(***************************************************************************)
(* Properties of the request chain (Spec)                                  *)
(***************************************************************************)
\* The caller got an error: HTTP 500, or runRagPipeline's {success: false}.
ResultIsFailure ==
    \/ rq.result.status = 500
    \/ rq.result.status = 0 /\ ~rq.result.body.success

\* The caller got a normal result.
ResultIsSuccess ==
    \/ rq.result.status = 200
    \/ rq.result.status = 0 /\ rq.result.body.success

\* The k-th batch (from 1) of the records of the run.
BatchOf(k) == Slice(rq.vectorsToUpload, (k - 1) * BATCH_SIZE, k * BATCH_SIZE)

\* C1: when the upsert of batch k fails, the batches issued are exactly
\* 1..k in that order (none after k), every batch before k was acknowledged
\* and its records are in the store as sent, and the call has ended with a
\* failure delivered to the caller.
C1_BatchFailureIsolation ==
    hist.failedBatch > 0 =>
        LET k == hist.failedBatch
        IN  /\ hist.attempted = [i \in 1..k |-> i]
            /\ hist.acked = 1..(k - 1)
            /\ \A j \in 1..(k - 1) :
                    \A i \in 1..Len(BatchOf(j)) :
                        /\ BatchOf(j)[i].id \in DOMAIN store
                        /\ store[BatchOf(j)[i].id] = BatchOf(j)[i]
            /\ rq.pc = "done"
            /\ ResultIsFailure

\* C1 witness: batch 2 of 3 failed.
C1_Witness ==
    /\ hist.failedBatch = 2
    /\ Len(rq.vectorsToUpload) > 2 * BATCH_SIZE
    /\ rq.pc = "done"

\* C2: when the upsert of batch k fails, the error delivered to the caller
\* names k, the failing batch's position.
C2_ErrorNamesFailingBatch ==
    (hist.failedBatch > 0 /\ rq.pc = "done") =>
        ToString(hist.failedBatch) \in Range(rq.result.body.error)

\* What searchAndAnswer returned, as the entry point passed it on.
ReturnedAnswer ==
    CASE rq.entry = "getFile" -> rq.result.body.answer
      [] rq.entry = "server" -> rq.result.body.answer.answer
      [] OTHER -> rq.result.body.testResult.answer

ReturnedSources ==
    CASE rq.entry = "getFile" -> rq.result.body.sources
      [] rq.entry = "server" -> rq.result.body.answer.sources
      [] OTHER -> rq.result.body.testResult.sources

\* C3: when the store answers the query with zero matches, the call has
\* ended with a normal result whose sources are empty and whose answer is the
\* fixed "no relevant information" text, and no generation call was made.
C3_EmptyResultShortCircuits ==
    (hist.queried /\ rq.matches = <<>>) =>
        /\ rq.pc = "done"
        /\ ResultIsSuccess
        /\ ReturnedSources = <<>>
        /\ ReturnedAnswer = NoInfoAnswer
        /\ hist.genCalls = 0

\* C3 witness: a finished call whose query came back empty.
C3_Witness ==
    /\ rq.pc = "done"
    /\ hist.queried
    /\ rq.matches = <<>>

\* C4: a finished searchAndAnswer call from an HTTP handler has issued no
\* upsert, and the store holds the records it held before the call.
C4_AskLeavesStoreUnchanged ==
    (rq.pc = "done" /\ rq.entry \in {"getFile", "server"}) =>
        /\ hist.attempted = <<>>
        /\ store = hist.storeBefore

\* C5: a finished searchAndAnswer call that was given no file, with no
\* external call failing, has read the default corpus and ended with a result.
C5_NoFileUsesDefaultCorpus ==
    (rq.pc = "done" /\ hist.saCalled /\ hist.saNoFile /\ ~hist.extFailed) =>
        /\ hist.saPath = SOURCE_TEXT_FILE_PATH
        /\ ResultIsSuccess

\* The store after one run that upserts all of records into s.
AfterOneRun(s, records) ==
    LET ids == {records[i].id : i \in 1..Len(records)}
    IN  [id \in DOMAIN s \cup ids |->
            IF id \in ids THEN records[CHOOSE i \in 1..Len(records) : records[i].id = id]
            ELSE s[id]]

\* This run ingested, with success, the text and policy of the run before it.
ReingestedSame ==
    /\ rq.pc = "done"
    /\ hist.ingest.status = "ok"
    /\ hist.prev.status \in {"ok", "failed"}
    /\ hist.prev.text = hist.ingest.text
    /\ hist.prev.chunkSize = hist.ingest.chunkSize

\* C10: a successful ingestion of the text and policy of the run before it
\* yields the same chunks as that run and, if that run succeeded, leaves the
\* store as that run left it; if that run failed at a batch, it leaves the
\* store as one successful run from the state before the failed run would.
C10_ReingestionIdempotent ==
    ReingestedSame =>
        /\ hist.prev.status = "ok" =>
                /\ rq.textChunks = hist.prev.textChunks
                /\ store = hist.storeBefore
        /\ hist.prev.status = "failed" =>
                store = AfterOneRun(hist.prev.storeBefore, rq.vectorsToUpload)

\* C10 witness: three batches ingested again after a run that failed at batch 2.
C10_Witness ==
    /\ ReingestedSame
    /\ hist.prev.failedBatch = 2
    /\ Len(rq.vectorsToUpload) > 2 * BATCH_SIZE

\* A second successful run of three batches after a first successful one.
C10_WitnessBothSucceeded ==
    /\ ReingestedSame
    /\ hist.prev.status = "ok"
    /\ Len(rq.vectorsToUpload) > 2 * BATCH_SIZE

(***************************************************************************)
(* Properties of uploadChunksToPinecone called on its own (SpecUpload)     *)
(***************************************************************************)
\* C11: a call of uploadChunksToPinecone with a chunk array and a vector
\* array of different lengths, whichever is longer, has ended with a failure
\* delivered to the caller, has issued no upsert and has written no record.
C11_LengthMismatchIsFatal ==
    (/\ rq.entry = "upload"
     /\ rq.pc # "upload_call"
     /\ Len(rq.textChunks) # Len(rq.embeddingVectors)) =>
        /\ rq.pc = "done"
        /\ ResultIsFailure
        /\ hist.attempted = <<>>
        /\ store = EmptyStore

(***************************************************************************)
(* Properties of the query path (Spec)                                     *)
(***************************************************************************)
\* C12: when the store has answered a query with matches, the sources have
\* the length of the match sequence, at most topK, the i-th source carries
\* the id and the raw score of the i-th match, the i-th entry of the context
\* given to the generation call is the text of the i-th match, and the
\* sources returned to the caller are those sources.
C12_RankingPassThrough ==
    (hist.queried /\ rq.matches # <<>>) =>
        /\ Len(rq.matches) <= rq.maxResults
        /\ Len(rq.sources) = Len(rq.matches)
        /\ Len(rq.context) = Len(rq.matches)
        /\ \A i \in 1..Len(rq.matches) :
                /\ rq.sources[i].id = rq.matches[i].id
                /\ rq.sources[i].similarity = rq.matches[i].score
                /\ rq.context[i] = <<"Context ", i, ": ", rq.matches[i].metadata.text>>
        /\ (rq.pc = "done" /\ ResultIsSuccess) => ReturnedSources = rq.sources

\* C12 witness: a request returned topK sources whose scores differ.
C12_Witness ==
    /\ rq.pc = "done"
    /\ ResultIsSuccess
    /\ hist.queried
    /\ Len(rq.matches) = rq.maxResults
    /\ ReturnedSources[1].similarity > ReturnedSources[rq.maxResults].similarity

(***************************************************************************)
(* Properties of the sources (SpecSources)                                 *)
(***************************************************************************)
\* C13: in every source built from a match, preview is the first 300
\* characters of the passage text, followed by the truncation marker "..."
\* exactly when the passage text is longer than 300 characters, and fullText
\* is the whole passage text.
C13_PreviewCarriesTruncationMarker ==
    rq.pc = "mapped" =>
        \A i \in 1..Len(rq.matches) :
            LET text == rq.matches[i].metadata.text
            IN  /\ Len(rq.sources) = Len(rq.matches)
                /\ rq.sources[i].preview =
                        IF Len(text) > PreviewLength
                        THEN Slice(text, 0, PreviewLength) \o <<".", ".", ".">>
                        ELSE Slice(text, 0, PreviewLength)
                /\ rq.sources[i].fullText = text

(***************************************************************************)
(* Properties of the process-wide resources (Spec)                         *)
(***************************************************************************)
\* C14: over all the embedding calls of the process, for chunks and for
\* queries, the embedding model has been loaded at most once: no call has
\* loaded it after an earlier call had.
C14_EmbeddingModelLoadedOnce ==
    ~hist.modelReloaded

\* C15: whenever an upsert or a query has been issued to the store,
\* ensurePineconeIndexExists has returned earlier in the process.
C15_IndexEnsuredBeforeUse ==
    (\/ rq.pc \in {"upload", "sa_query"}
     \/ hist.attempted # <<>>
     \/ hist.queried) => hist.ensured

\* ensurePineconeIndexExists returns in this step.
EnsureReturns ==
    /\ rq.pc \in {"rag_list", "rag_create"}
    /\ rq'.pc \notin {"rag_list", "rag_create"}
    /\ ~hist'.extFailed

\* C16: in every step, the index exists when ensurePineconeIndexExists
\* returns; createIndex is in flight only while the index is absent from the
\* store; and an index that exists still exists after the step, so that over
\* any number of calls the index is created at most once.
C16_EnsureIndexIdempotent ==
    [][/\ EnsureReturns => indexExists'
       /\ rq.pc = "rag_create" => ~indexExists
       /\ rq'.pc = "rag_create" => ~indexExists'
       /\ indexExists => indexExists']_vars

\* C16 witness: the second call of ensurePineconeIndexExists in a row has
\* returned (the earlier runRagPipeline got past its own call).
C16_Witness ==
    /\ hist.n = 2
    /\ rq.entry = "rag"
    /\ rq.pc = "embed"
    /\ hist.ensured
    /\ hist.prev.status # "none"
    /\ hist.prev.chunkSize # SearchChunkSize
    /\ indexExists

(***************************************************************************)
(* Properties of the retrieval functions (SpecSearchQuery, Spec)           *)
(***************************************************************************)
\* C17: when the query embedding, the store query or the generation call
\* has failed, the call has ended with an error delivered to the caller,
\* never with a normal return.
C17_FailureIsNotEmptiness ==
    (hist.extFailed /\ rq.pc = "done") => ResultIsFailure

(***************************************************************************)
(* The two-sentence example (SpecSeg)                                      *)
(***************************************************************************)
ExampleDone ==
    /\ seg.pc = "done"
    /\ seg.policy = "word"
    /\ seg.textContent = ExampleText
    /\ seg.wordsPerChunk = 5
    /\ seg.overlapWords = 0

ChunkTexts == [i \in 1..Len(seg.textChunks) |-> seg.textChunks[i].text]

\* C18 as stated: the word-window segmenter with window 5 and overlap 0 cuts
\* "Cats are mammals. Dogs are mammals too." into exactly the two chunks
\* "Cats are mammals." and "Dogs are mammals too.".
C18_ExampleCutAtSentences ==
    ExampleDone =>
        ChunkTexts = <<<<"C", "a", "t", "s", " ", "a", "r", "e", " ", "m", "a", "m", "m",
                       "a", "l", "s", ".">>,
                       <<"D", "o", "g", "s", " ", "a", "r", "e", " ", "m", "a", "m", "m",
                       "a", "l", "s", " ", "t", "o", "o", ".">>>>

\* C18 amended: the word-window segmenter with window 5 and overlap 0 cuts
\* "Cats are mammals. Dogs are mammals too." into exactly the two chunks
\* "Cats are mammals. Dogs are" and "mammals too.", ids chunk_0 and chunk_1.
C18_ExampleCutAtFiveWords ==
    ExampleDone =>
        /\ ChunkTexts = <<<<"C", "a", "t", "s", " ", "a", "r", "e", " ", "m", "a", "m", "m",
                          "a", "l", "s", ".", " ", "D", "o", "g", "s", " ", "a", "r", "e">>,
                          <<"m", "a", "m", "m", "a", "l", "s", " ", "t", "o", "o", ".">>>>
        /\ [i \in 1..Len(seg.textChunks) |-> seg.textChunks[i].id]
                = <<ChunkId(0), ChunkId(1)>>

\* C18 witness: the example has been segmented.
C18_Witness ==
    /\ ExampleDone
    /\ Len(seg.textChunks) = 2

(***************************************************************************)
(* Properties of two requests served at once (SpecConcurrent)              *)
(***************************************************************************)
\* The match was built from a chunk of the request's own file.
OwnMatch(p, match) ==
    \E j \in 1..Len(rq[p].textChunks) :
        /\ rq[p].textChunks[j].id = match.id
        /\ rq[p].textChunks[j].text = match.metadata.text

\* C19: when two requests with different uploaded files have been in
\* progress at the same time, every match the store returned to one of them
\* was built from a chunk of that request's own file.
C19_RequestIsolation ==
    \A p \in Requests :
        hist[p].overlapped =>
            \A i \in 1..Len(rq[p].matches) : OwnMatch(p, rq[p].matches[i])

(***************************************************************************)
(* Properties of the content of the index (Spec)                           *)
(***************************************************************************)
\* The records of the batches in ks, by id.
IdsOfBatches(ks) ==
    UNION {{BatchOf(k)[i].id : i \in 1..Len(BatchOf(k))} : k \in ks}

\* The store is the store as the request found it, with the records of the
\* batches in ks inserted or written over the record of the same id.
StoreIsBeforePlus(ks) ==
    /\ DOMAIN store = DOMAIN hist.storeBefore \cup IdsOfBatches(ks)
    /\ \A k \in ks : \A i \in 1..Len(BatchOf(k)) :
            store[BatchOf(k)[i].id] = BatchOf(k)[i]
    /\ \A id \in DOMAIN hist.storeBefore \ IdsOfBatches(ks) :
            store[id] = hist.storeBefore[id]

\* The chunks of the earlier run beyond the last chunk of this run.
StalePositions ==
    IF hist.prev.status = "ok" /\ hist.ingest.status = "ok"
    THEN (Len(rq.textChunks) + 1)..Len(hist.prev.textChunks)
    ELSE {}

\* After a run of n chunks and a run of m < n chunks, the records
\* chunk_m .. chunk_(n-1) of the earlier run are in the store, and a query
\* that returns the whole store returns them.
StaleRecordsRemain ==
    \A i \in StalePositions :
        LET stale == hist.prev.textChunks[i]
        IN  /\ stale.id \in DOMAIN store
            /\ store[stale.id].metadata.text = stale.text
            /\ (hist.queried /\ Cardinality(DOMAIN store) <= rq.maxResults) =>
                    \E j \in 1..Len(rq.matches) :
                        /\ rq.matches[j].id = stale.id
                        /\ rq.matches[j].metadata.text = stale.text

\* C20 as stated: the ids in the store are those the request found plus
\* those of the acknowledged batches, each id of an acknowledged batch
\* holding the record of that upsert and every other id its earlier record;
\* and the records of a longer earlier run remain.
C20_StoreIsUnionOfAcknowledged ==
    /\ StoreIsBeforePlus(hist.acked)
    /\ StaleRecordsRemain

\* C20 amended: the same with the batches the store has written, which are
\* the acknowledged batches and a batch whose upsert reported a failure
\* after the store had written it.
C20_StoreIsUnionOfWritten ==
    /\ StoreIsBeforePlus(hist.acked \cup hist.written)
    /\ StaleRecordsRemain

\* C20 witness: after a run of three chunks and a run of one chunk, a
\* query has returned the last record of the earlier run.
C20_Witness ==
    /\ StalePositions # {}
    /\ rq.pc = "done"
    /\ ResultIsSuccess
    /\ \E j \in 1..Len(ReturnedSources) :
          LET stale == hist.prev.textChunks[Len(hist.prev.textChunks)]
          IN  /\ ReturnedSources[j].id = stale.id
              /\ ReturnedSources[j].fullText = stale.text

(***************************************************************************)
(* Properties of the batch loop (SpecUpload)                               *)
(***************************************************************************)
\* ceil(n / BATCH_SIZE)
BatchCount(n) == (n + BATCH_SIZE - 1) \div BATCH_SIZE

\* C21: the upsert calls are issued one after the other, numbered 1, 2, ...;
\* and when the upload of n records has succeeded, ceil(n/100) calls were
\* issued, each but the last with exactly 100 records and the last with the
\* rest (at most 100), the i-th record in order being the record at position
\* i of its batch sequence, so that each record is in exactly one batch; with
\* n = 0 no call was issued.
C21_BatchPartition ==
    /\ hist.attempted = [k \in 1..Len(hist.sent) |-> k]
    /\ hist.ingest.status = "ok" =>
          LET n == Len(rq.vectorsToUpload)
              calls == Len(hist.sent)
          IN  /\ calls = BatchCount(n)
              /\ n = 0 => hist.sent = <<>>
              /\ \A k \in 1..calls :
                    /\ Len(hist.sent[k]) >= 1
                    /\ Len(hist.sent[k]) <= 100
                    /\ k < calls => Len(hist.sent[k]) = 100
              /\ calls > 0 => Len(hist.sent[calls]) = n - 100 * (calls - 1)
              /\ \A i \in 1..n :
                    hist.sent[((i - 1) \div 100) + 1][((i - 1) % 100) + 1]
                        = rq.vectorsToUpload[i].id
              /\ \A i, j \in 1..n :
                    rq.vectorsToUpload[i].id = rq.vectorsToUpload[j].id => i = j

\* C21 witness: an upload of 200 records has succeeded in two full batches.
C21_Witness ==
    /\ rq.entry = "upload"
    /\ rq.pc = "done"
    /\ hist.ingest.status = "ok"
    /\ Len(rq.vectorsToUpload) = 2 * BATCH_SIZE
    /\ Len(hist.sent) = 2

====
